---- MODULE Spec2Model ----
(***************************************************************************)
(* Model of strawberry/extensions/schema_directives.py:                    *)
(* SchemaDirectivesExtensionSync.resolve and the directive locator         *)
(* get_directives_for_resolver_info / get_type_directives_from_field.      *)
(*                                                                         *)
(* One call frame per resolve invocation; every hook call, the call of     *)
(* _next and every loop iteration is one step, so that invocations of      *)
(* sibling fields interleave at hook granularity.                          *)
(***************************************************************************)
EXTENDS Naturals, Sequences, FiniteSets, TLC

VARIABLES schema, frame

vars == <<schema, frame>>

(***************************************************************************)
(* Bounds                                                                  *)
(***************************************************************************)
\* directives attached in one schema (over all fields and types), Spec
MaxDirectives == 2
\* directives attached in one schema, SpecSiblings
MaxSiblingDirectives == 1
\* resolve invocations in flight at once, SpecSiblings
MaxCalls == 2

(***************************************************************************)
(* Values, outcomes                                                        *)
(***************************************************************************)
\* a Python value as far as the hooks of the tests look at it
PyValue(awaitable, type, text) ==
    [awaitable |-> awaitable, type |-> type, text |-> text]

\* datetime(2020, 1, 1)
DateTime2020 == PyValue(FALSE, "datetime", "2020-01-01T00:00:00")

\* User().name
Tony == PyValue(FALSE, "str", "Tony")

PyNone == PyValue(FALSE, "NoneType", "None")

\* an awaitable that completes with v
Awaitable(v) == PyValue(TRUE, v.type, v.text)

\* the value an awaitable completes with; a plain value is itself
Awaited(v) == PyValue(FALSE, v.type, v.text)

\* placeholder of "no value" in an outcome that is an error
Absent == PyValue(FALSE, "<absent>", "")

\* isinstance(value, cls): an awaitable is an instance of no checked class
isinstance(v, cls) == ~v.awaitable /\ v.type = cls

Return(v) == [kind |-> "return", value |-> v, error |-> ""]

Raise(e) == [kind |-> "raise", value |-> Absent, error |-> e]

Pending == [kind |-> "pending", value |-> Absent, error |-> ""]

\* what the underlying resolver can do: a value, an awaitable, an error
ResolverOutcomes ==
    { Return(DateTime2020), Return(Tony), Return(PyNone),
      Return(Awaitable(DateTime2020)), Return(Awaitable(Tony)),
      Raise("resolver failed") }

\* the root objects a field is resolved on
Roots == {"root1", "root2"}

\* sibling fields are fields of one object: they are resolved on the same root
SiblingRoots == {"root1"}

(***************************************************************************)
(* Directive instances and their hooks                                     *)
(***************************************************************************)
Directive(name, arg) == [name |-> name, arg |-> arg]

\* IsAuthenticated(): unauthorized_message defaults to this string
unauthorized_message == "User is not authenticated"

IsAuthenticated == Directive("IsAuthenticated", unauthorized_message)

\* Date(format="%Y-%m-%d") and Date(format="")
DateYmd == Directive("Date", "%Y-%m-%d")

DateIso == Directive("Date", "")

\* a directive whose start-hook returns normally and that has no end-hook
Audit == Directive("Audit", "")

\* both hooks: the start-hook returns, the end-hook replaces a str by "***"
Mask == Directive("Mask", "***")

\* end-hook only: returns None whatever it receives
Nullify == Directive("Nullify", "")

\* end-hook only: raises when it receives None, else returns the value
NonNull == Directive("NonNull", "value is null")

Directives == {IsAuthenticated, DateYmd, DateIso, Audit, Mask, Nullify, NonNull}

\* hasattr(directive, "on_resolve_start")
has_on_resolve_start(d) == d.name \in {"IsAuthenticated", "Audit", "Mask"}

\* hasattr(directive, "on_resolve_end")
has_on_resolve_end(d) == d.name \in {"Date", "Mask", "Nullify", "NonNull"}

\* directive.on_resolve_start(root, info, *args, **kwargs)
on_resolve_start(d, root, info) ==
    IF d.name = "IsAuthenticated" THEN Raise(d.arg) ELSE Return(PyNone)

\* value.strftime(format) of the datetimes of the model
strftime(v, format) ==
    IF format = "%Y-%m-%d" /\ v.text = "2020-01-01T00:00:00"
    THEN PyValue(FALSE, "str", "2020-01-01")
    ELSE PyValue(FALSE, "str", format)

\* value.isoformat()
isoformat(v) == PyValue(FALSE, "str", v.text)

\* Date.on_resolve_end
Date_on_resolve_end(d, value) ==
    IF ~isinstance(value, "datetime") THEN value
    ELSE IF d.arg # "" THEN strftime(value, d.arg)
    ELSE isoformat(value)

\* directive.on_resolve_end(value, root, info, *args, **kwargs)
on_resolve_end(d, value, root, info) ==
    CASE d.name = "Date" -> Return(Date_on_resolve_end(d, value))
      [] d.name = "Mask" ->
            Return(IF isinstance(value, "str")
                   THEN PyValue(FALSE, "str", d.arg) ELSE value)
      [] d.name = "Nullify" -> Return(PyNone)
      [] d.name = "NonNull" ->
            IF isinstance(value, "NoneType") THEN Raise(d.arg) ELSE Return(value)
      [] OTHER -> Return(value)

(***************************************************************************)
(* Schema: the field registry and the types                                *)
(***************************************************************************)
\* types with a _type_definition (strawberry object types)
ObjectTypes == {"Query", "User"}

TypeNames == ObjectTypes \cup {"str"}

\* (parent type name, field name) of the registered fields
RegisteredFields == { <<"Query", "user">>, <<"User", "name">> }

\* the declared return type of each registered field
FieldType(key) == IF key = <<"Query", "user">> THEN "User" ELSE "str"

\* info.parent_type.name, info.field_name of a resolution
Info(parent, field) == [parent_type |-> parent, field_name |-> field]

\* the fields the engine resolves: the registered ones and an
\* engine-internal one the registry does not know
Infos ==
    { Info("Query", "user"), Info("User", "name"), Info("Query", "__typename") }

\* a place of the schema a directive is attached to
FieldSlot(key) == [on |-> "field", parent |-> key[1], name |-> key[2]]

TypeSlot(t) == [on |-> "type", parent |-> t, name |-> ""]

Slots ==
    { FieldSlot(key) : key \in RegisteredFields } \cup
    { TypeSlot(t) : t \in ObjectTypes }

EmptySchema ==
    [ fields |-> [ key \in RegisteredFields |->
                     [is_none |-> FALSE, directives |-> << >>,
                      type |-> FieldType(key)] ],
      types  |-> [ t \in TypeNames |->
                     [has_type_definition |-> t \in ObjectTypes,
                      directives |-> << >>] ] ]

\* strawberry.field(directives=[.., d]) / strawberry.type(directives=[.., d])
Attach(s, slot, d) ==
    IF slot.on = "field"
    THEN [s EXCEPT !.fields[<<slot.parent, slot.name>>].directives =
                        Append(@, d)]
    ELSE [s EXCEPT !.types[slot.parent].directives = Append(@, d)]

RECURSIVE BuildSchema(_)
\* the schema declared by a sequence of attachments
BuildSchema(atts) ==
    IF atts = << >> THEN EmptySchema
    ELSE Attach(BuildSchema(SubSeq(atts, 1, Len(atts) - 1)),
                atts[Len(atts)][1], atts[Len(atts)][2])

SeqsUpTo(S, n) == UNION { [1..k -> S] : k \in 0..n }

\* the schemas with at most n directives of D attached at slots of S
Schemas(S, D, n) == { BuildSchema(atts) : atts \in SeqsUpTo(S \X D, n) }

\* get_field_for_type yields None for an unregistered pair
NoField == [is_none |-> TRUE, directives |-> << >>, type |-> "str"]

\* schema.get_field_for_type(field_name=.., type_name=..)
get_field_for_type(s, field_name, type_name) ==
    IF <<type_name, field_name>> \in DOMAIN s.fields
    THEN s.fields[<<type_name, field_name>>]
    ELSE NoField

(***************************************************************************)
(* Directive locator                                                       *)
(***************************************************************************)
\* a locator that forgets the directives of the return type
get_type_directives_none(s, field) == << >>

get_type_directives_from_field(s, field) ==
    IF ~s.types[field.type].has_type_definition THEN << >>
    ELSE s.types[field.type].directives

\* a locator that puts the directives of the return type first
get_directives_type_first(s, info) ==
    LET field == get_field_for_type(s, info.field_name, info.parent_type)
    IN  IF field.is_none THEN << >>
        ELSE get_type_directives_from_field(s, field) \o field.directives

\* a locator that also collects the directives of the declaring type
get_directives_with_parent(s, info) ==
    LET field == get_field_for_type(s, info.field_name, info.parent_type)
    IN  IF field.is_none THEN << >>
        ELSE field.directives \o get_type_directives_from_field(s, field)
                 \o s.types[info.parent_type].directives

get_directives_for_resolver_info(s, info) ==
    LET field == get_field_for_type(s, info.field_name, info.parent_type)
    IN  IF field.is_none THEN << >>
        ELSE field.directives \o get_type_directives_from_field(s, field)

(***************************************************************************)
(* Call frames of resolve                                                  *)
(***************************************************************************)
Calls == 1..MaxCalls

NoInfo == Info("", "")

IdleFrame ==
    [ pc |-> "idle", root |-> "", info |-> NoInfo,
      schema_directives |-> << >>, idx |-> 0,
      value |-> Absent, result |-> Pending, trace |-> << >> ]

\* one call made by resolve: a hook of the directive at position pos of the
\* located sequence (pos = 0 for _next), what it received and what it did
Event(op, pos, d, root, info, arg, out) ==
    [op |-> op, pos |-> pos, directive |-> d, root |-> root, info |-> info,
     arg |-> arg, out |-> out]

NoDirective == Directive("", "")

\* a directive sequence kept on the extension object instead of in a local:
\* every invocation iterates over what the first frame located
schema_directives_on_self(c) == frame[1].schema_directives

\* the directive sequence frame c iterates over (the local of resolve)
schema_directives(c) == frame[c].schema_directives

\* the directive the loop of frame c is at
directive(c) == schema_directives(c)[frame[c].idx]

\* line 17: resolve is entered and locates the directives
Resolve(c, root, info) ==
    /\ frame[c].pc = "idle"
    /\ frame' = [frame EXCEPT ![c] =
           [IdleFrame EXCEPT !.pc = "start", !.root = root, !.info = info,
               !.schema_directives =
                   get_directives_for_resolver_info(schema, info),
               !.idx = 1]]
    /\ UNCHANGED schema

\* a first loop that swallows the error of a start-hook and goes on
StartHookSwallow(c) ==
    LET f == frame[c] IN
    /\ f.pc = "start"
    /\ f.idx <= Len(schema_directives(c))
    /\ has_on_resolve_start(directive(c))
    /\ LET out == on_resolve_start(directive(c), f.root, f.info)
           ev  == Event("on_resolve_start", f.idx, directive(c), f.root,
                        f.info, Absent, out)
       IN  frame' = [frame EXCEPT ![c] =
                        [f EXCEPT !.idx = @ + 1, !.trace = Append(@, ev)]]
    /\ UNCHANGED schema

\* lines 19-21: an iteration of the first loop on a directive with the hook
StartHook(c) ==
    LET f == frame[c] IN
    /\ f.pc = "start"
    /\ f.idx <= Len(schema_directives(c))
    /\ has_on_resolve_start(directive(c))
    /\ LET out == on_resolve_start(directive(c), f.root, f.info)
           ev  == Event("on_resolve_start", f.idx, directive(c), f.root,
                        f.info, Absent, out)
       IN  frame' = [frame EXCEPT ![c] =
             IF out.kind = "raise"
             THEN [f EXCEPT !.pc = "done", !.result = out,
                            !.trace = Append(@, ev)]
             ELSE [f EXCEPT !.idx = @ + 1, !.trace = Append(@, ev)]]
    /\ UNCHANGED schema

\* lines 19-20: an iteration of the first loop on a directive without it
StartSkip(c) ==
    LET f == frame[c] IN
    /\ f.pc = "start"
    /\ f.idx <= Len(schema_directives(c))
    /\ ~has_on_resolve_start(directive(c))
    /\ frame' = [frame EXCEPT ![c].idx = @ + 1]
    /\ UNCHANGED schema

\* a first loop that stops one directive early
CallNextEarly(c, out) ==
    LET f == frame[c] IN
    /\ f.pc = "start"
    /\ f.idx >= Len(schema_directives(c))
    /\ LET ev == Event("_next", 0, NoDirective, f.root, f.info, Absent, out)
       IN  frame' = [frame EXCEPT ![c] =
             IF out.kind = "raise"
             THEN [f EXCEPT !.pc = "done", !.result = out,
                            !.trace = Append(@, ev)]
             ELSE [f EXCEPT !.pc = "end", !.idx = 1, !.value = out.value,
                            !.trace = Append(@, ev)]]
    /\ UNCHANGED schema

\* line 23: the first loop is over, the underlying resolver is called
CallNext(c, out) ==
    LET f == frame[c] IN
    /\ f.pc = "start"
    /\ f.idx > Len(schema_directives(c))
    /\ LET ev == Event("_next", 0, NoDirective, f.root, f.info, Absent, out)
       IN  frame' = [frame EXCEPT ![c] =
             IF out.kind = "raise"
             THEN [f EXCEPT !.pc = "done", !.result = out,
                            !.trace = Append(@, ev)]
             ELSE [f EXCEPT !.pc = "end", !.idx = 1, !.value = out.value,
                            !.trace = Append(@, ev)]]
    /\ UNCHANGED schema

\* a second loop that calls the end-hook and drops what it returns
EndHookNoAssign(c) ==
    LET f == frame[c] IN
    /\ f.pc = "end"
    /\ f.idx <= Len(schema_directives(c))
    /\ has_on_resolve_end(directive(c))
    /\ LET out == on_resolve_end(directive(c), f.value, f.root, f.info)
           ev  == Event("on_resolve_end", f.idx, directive(c), f.root,
                        f.info, f.value, out)
       IN  frame' = [frame EXCEPT ![c] =
             IF out.kind = "raise"
             THEN [f EXCEPT !.pc = "done", !.result = out, !.value = Absent,
                            !.trace = Append(@, ev)]
             ELSE [f EXCEPT !.idx = @ + 1, !.trace = Append(@, ev)]]
    /\ UNCHANGED schema

\* a second loop that recovers from a failing end-hook with the value so far
EndHookRecover(c) ==
    LET f == frame[c] IN
    /\ f.pc = "end"
    /\ f.idx <= Len(schema_directives(c))
    /\ has_on_resolve_end(directive(c))
    /\ LET out == on_resolve_end(directive(c), f.value, f.root, f.info)
           ev  == Event("on_resolve_end", f.idx, directive(c), f.root,
                        f.info, f.value, out)
       IN  frame' = [frame EXCEPT ![c] =
             IF out.kind = "raise"
             THEN [f EXCEPT !.idx = @ + 1, !.trace = Append(@, ev)]
             ELSE [f EXCEPT !.idx = @ + 1, !.value = out.value,
                            !.trace = Append(@, ev)]]
    /\ UNCHANGED schema

\* lines 25-27: an iteration of the second loop on a directive with the hook
EndHook(c) ==
    LET f == frame[c] IN
    /\ f.pc = "end"
    /\ f.idx <= Len(schema_directives(c))
    /\ has_on_resolve_end(directive(c))
    /\ LET out == on_resolve_end(directive(c), f.value, f.root, f.info)
           ev  == Event("on_resolve_end", f.idx, directive(c), f.root,
                        f.info, f.value, out)
       IN  frame' = [frame EXCEPT ![c] =
             IF out.kind = "raise"
             THEN [f EXCEPT !.pc = "done", !.result = out, !.value = Absent,
                            !.trace = Append(@, ev)]
             ELSE [f EXCEPT !.idx = @ + 1, !.value = out.value,
                            !.trace = Append(@, ev)]]
    /\ UNCHANGED schema

\* lines 25-26: an iteration of the second loop on a directive without it
EndSkip(c) ==
    LET f == frame[c] IN
    /\ f.pc = "end"
    /\ f.idx <= Len(schema_directives(c))
    /\ ~has_on_resolve_end(directive(c))
    /\ frame' = [frame EXCEPT ![c].idx = @ + 1]
    /\ UNCHANGED schema

\* a resolve that ends without "return value": the caller gets None
ReturnNone(c) ==
    LET f == frame[c] IN
    /\ f.pc = "end"
    /\ f.idx > Len(schema_directives(c))
    /\ frame' = [frame EXCEPT ![c] =
           [f EXCEPT !.pc = "done", !.result = Return(PyNone)]]
    /\ UNCHANGED schema

\* line 29: return value
ReturnValue(c) ==
    LET f == frame[c] IN
    /\ f.pc = "end"
    /\ f.idx > Len(schema_directives(c))
    /\ frame' = [frame EXCEPT ![c] =
           [f EXCEPT !.pc = "done", !.result = Return(f.value)]]
    /\ UNCHANGED schema

\* the engine has taken the value or the error; the frame is gone
Collect(c) ==
    /\ frame[c].pc = "done"
    /\ frame' = [frame EXCEPT ![c] = IdleFrame]
    /\ UNCHANGED schema

(***************************************************************************)
(* Specifications                                                          *)
(***************************************************************************)
\* one field resolved at a time
Init ==
    /\ schema \in Schemas(Slots, Directives, MaxDirectives)
    /\ frame = [c \in Calls |-> IdleFrame]

Next ==
    \/ \E root \in Roots, info \in Infos : Resolve(1, root, info)
    \/ StartHook(1)
    \/ StartSkip(1)
    \/ \E out \in ResolverOutcomes : CallNext(1, out)
    \/ EndHook(1)
    \/ EndSkip(1)
    \/ ReturnValue(1)
    \/ Collect(1)

Spec == Init /\ [][Next]_vars

\* the engine resolves sibling fields concurrently: the fields of one Query
\* object, on one root
SiblingInfos == { info \in Infos : info.parent_type = "Query" }

\* the places of the schema a field of Query can take a directive from
SiblingSlots == Slots \ { FieldSlot(<<"User", "name">>) }

\* a start-hook that raises, one that returns, a directive with both hooks,
\* an end-hook that changes every value, an end-hook that raises
SiblingDirectives == {IsAuthenticated, Audit, Mask, Nullify, NonNull}

SiblingOutcomes ==
    { Return(Tony), Return(PyNone), Raise("resolver failed") }

InitSiblings ==
    /\ schema \in Schemas(SiblingSlots, SiblingDirectives, MaxSiblingDirectives)
    /\ frame = [c \in Calls |-> IdleFrame]

NextSiblings ==
    \/ \E c \in Calls, root \in SiblingRoots, info \in SiblingInfos :
            Resolve(c, root, info)
    \/ \E c \in Calls : StartHook(c)
    \/ \E c \in Calls : StartSkip(c)
    \/ \E c \in Calls, out \in SiblingOutcomes : CallNext(c, out)
    \/ \E c \in Calls : EndHook(c)
    \/ \E c \in Calls : EndSkip(c)
    \/ \E c \in Calls : ReturnValue(c)
    \/ \E c \in Calls : Collect(c)

SpecSiblings == InitSiblings /\ [][NextSiblings]_vars

(***************************************************************************)
(* resolve as one computation: the calls it makes and how it ends, given   *)
(* what the underlying resolver does                                       *)
(***************************************************************************)
RECURSIVE RunStart(_, _, _, _)
\* the first loop from position p on
RunStart(dirs, p, root, info) ==
    IF p > Len(dirs) THEN [trace |-> << >>, result |-> Pending]
    ELSE IF ~has_on_resolve_start(dirs[p]) THEN RunStart(dirs, p + 1, root, info)
    ELSE LET out == on_resolve_start(dirs[p], root, info)
             ev  == Event("on_resolve_start", p, dirs[p], root, info,
                          Absent, out)
         IN  IF out.kind = "raise" THEN [trace |-> <<ev>>, result |-> out]
             ELSE LET rest == RunStart(dirs, p + 1, root, info)
                  IN  [trace |-> <<ev>> \o rest.trace, result |-> rest.result]

RECURSIVE RunEnd(_, _, _, _, _)
\* the second loop from position p on, value being the value so far
RunEnd(dirs, p, value, root, info) ==
    IF p > Len(dirs) THEN [trace |-> << >>, result |-> Return(value)]
    ELSE IF ~has_on_resolve_end(dirs[p])
         THEN RunEnd(dirs, p + 1, value, root, info)
    ELSE LET out == on_resolve_end(dirs[p], value, root, info)
             ev  == Event("on_resolve_end", p, dirs[p], root, info, value, out)
         IN  IF out.kind = "raise" THEN [trace |-> <<ev>>, result |-> out]
             ELSE LET rest == RunEnd(dirs, p + 1, out.value, root, info)
                  IN  [trace |-> <<ev>> \o rest.trace, result |-> rest.result]

\* resolve(_next, root, info) run on its own, _next doing nextOut
RunAlone(s, root, info, nextOut) ==
    LET dirs == get_directives_for_resolver_info(s, info)
        st   == RunStart(dirs, 1, root, info)
        nx   == Event("_next", 0, NoDirective, root, info, Absent, nextOut)
    IN  IF st.result.kind = "raise" THEN st
        ELSE IF nextOut.kind = "raise"
             THEN [trace |-> Append(st.trace, nx), result |-> nextOut]
        ELSE LET en == RunEnd(dirs, 1, nextOut.value, root, info)
             IN  [trace |-> Append(st.trace, nx) \o en.trace,
                  result |-> en.result]

(***************************************************************************)
(* Reading a frame                                                         *)
(***************************************************************************)
\* the registry key of the field frame c resolves
KeyOf(c) == <<frame[c].info.parent_type, frame[c].info.field_name>>

Registered(c) == KeyOf(c) \in RegisteredFields

\* the directives declared on the field of frame c, << >> if unregistered
FieldDirs(c) ==
    IF Registered(c) THEN schema.fields[KeyOf(c)].directives ELSE << >>

\* the directives declared on the return type of the field of frame c
TypeDirs(c) ==
    IF Registered(c) /\ FieldType(KeyOf(c)) \in ObjectTypes
    THEN schema.types[FieldType(KeyOf(c))].directives ELSE << >>

\* the events of the trace of frame c that are calls of op
EventsOf(c, op) ==
    { k \in 1..Len(frame[c].trace) : frame[c].trace[k].op = op }

Active == { c \in Calls : frame[c].pc # "idle" }

Done == { c \in Calls : frame[c].pc = "done" }

(***************************************************************************)
(* Claims                                                                  *)
(***************************************************************************)
\* the first position of dirs whose start-hook raises, 0 if there is none
FirstRaising(dirs, root, info) ==
    LET R == { p \in 1..Len(dirs) :
                 /\ has_on_resolve_start(dirs[p])
                 /\ on_resolve_start(dirs[p], root, info).kind = "raise" }
    IN  IF R = {} THEN 0 ELSE CHOOSE p \in R : \A q \in R : p <= q

\* C1: if the on_resolve_start hook of a directive of the located sequence
\* raises, no start-hook of a later directive is invoked, _next is never
\* called, no on_resolve_end hook is invoked, and the invocation ends with
\* exactly that error and no value.
C1_StartErrorAborts ==
    \A c \in Active :
      LET f  == frame[c]
          tr == f.trace
          p  == FirstRaising(FieldDirs(c) \o TypeDirs(c), f.root, f.info)
      IN  /\ \A k \in 1..Len(tr) :
               (tr[k].op = "on_resolve_start" /\ tr[k].out.kind = "raise") =>
                 /\ k = Len(tr)
                 /\ f.pc = "done"
                 /\ f.result = Raise(tr[k].out.error)
                 /\ tr[k].pos = p
                 /\ \A j \in 1..Len(tr) : tr[j].op = "on_resolve_start"
          /\ (p > 0 /\ f.pc = "done") =>
               /\ f.result = Raise((FieldDirs(c) \o TypeDirs(c))[p].arg)
               /\ f.result.value = Absent
               /\ EventsOf(c, "_next") = {}
               /\ EventsOf(c, "on_resolve_end") = {}
               /\ \A k \in 1..Len(tr) : tr[k].pos <= p
          /\ (p > 0) => f.pc \in {"start", "done"}

\* a start-hook raised at the second directive, after the start-hook of the
\* first one had returned
C1_Witness ==
    \E c \in Done :
      /\ Len(frame[c].trace) = 2
      /\ frame[c].trace[1].out.kind = "return"
      /\ frame[c].trace[2].op = "on_resolve_start"
      /\ frame[c].trace[2].out.kind = "raise"
      /\ frame[c].trace[2].pos = 2
      /\ has_on_resolve_end(frame[c].schema_directives[1])
      /\ frame[c].result = Raise(unauthorized_message)

\* C2: the located sequence is the field's own directives in declaration
\* order followed by the directives of the return type in declaration order;
\* in one invocation every field-level start-hook (end-hook) is invoked
\* before any type-level start-hook (end-hook).
C2_FieldBeforeType ==
    \A c \in Active :
      LET f  == frame[c]
          tr == f.trace
          fd == FieldDirs(c)
          td == TypeDirs(c)
      IN  /\ Len(f.schema_directives) = Len(fd) + Len(td)
          /\ \A p \in 1..Len(fd) : f.schema_directives[p] = fd[p]
          /\ \A p \in 1..Len(td) : f.schema_directives[Len(fd) + p] = td[p]
          /\ \A k \in 1..Len(tr) :
               tr[k].op # "_next" =>
                 /\ tr[k].pos \in 1..(Len(fd) + Len(td))
                 /\ tr[k].directive = (fd \o td)[tr[k].pos]
          /\ \A j, k \in 1..Len(tr) :
               ( /\ tr[j].op = tr[k].op
                 /\ tr[j].op # "_next"
                 /\ tr[j].pos <= Len(fd)
                 /\ tr[k].pos > Len(fd) ) => j < k

\* a field with a directive of its own and a directive on its return type,
\* different ones, both with both hooks invoked
C2_Witness ==
    \E c \in Done :
      /\ Len(FieldDirs(c)) = 1
      /\ Len(TypeDirs(c)) = 1
      /\ FieldDirs(c)[1] # TypeDirs(c)[1]
      /\ Cardinality({ k \in 1..Len(frame[c].trace) :
                         frame[c].trace[k].op # "_next" }) >= 3

RECURSIVE FoldEnd(_, _, _, _)
\* the left fold of the end-hooks of dirs over value
FoldEnd(dirs, value, root, info) ==
    IF dirs = << >> THEN value
    ELSE FoldEnd(Tail(dirs),
                 IF has_on_resolve_end(Head(dirs))
                 THEN on_resolve_end(Head(dirs), value, root, info).value
                 ELSE value,
                 root, info)

\* C3: when no hook raises, the value resolve returns is the left fold of the
\* end-hooks over the value of _next in located-sequence order: the first
\* end-hook receives what _next returned, each later one what the previous
\* one returned, directives without an end-hook leave the value untouched,
\* and the last end-hook's result is what resolve returns.
C3_EndHooksFold ==
    \A c \in Done :
      LET f  == frame[c]
          tr == f.trace
          E  == EventsOf(c, "on_resolve_end")
      IN  f.result.kind = "return" =>
            \E n \in EventsOf(c, "_next") :
              /\ \A k \in E : k > n
              /\ \A k \in (n + 1)..Len(tr) :
                   /\ k \in E
                   /\ tr[k].arg = IF k = n + 1 THEN tr[n].out.value
                                  ELSE tr[k - 1].out.value
                   /\ has_on_resolve_end((FieldDirs(c) \o TypeDirs(c))[tr[k].pos])
              /\ \A p \in 1..Len(FieldDirs(c) \o TypeDirs(c)) :
                   has_on_resolve_end((FieldDirs(c) \o TypeDirs(c))[p]) =>
                     \E k \in E : tr[k].pos = p
              /\ \A j, k \in E : j < k => tr[j].pos < tr[k].pos
              /\ f.result.value = tr[Len(tr)].out.value
              /\ f.result.value =
                   FoldEnd(FieldDirs(c) \o TypeDirs(c), tr[n].out.value,
                           f.root, f.info)

\* two end-hooks ran and each of them changed the value it received
C3_Witness ==
    \E c \in Done :
      LET tr == frame[c].trace
          n  == Len(tr)
      IN  /\ frame[c].result.kind = "return"
          /\ n >= 3
          /\ tr[n].op = "on_resolve_end" /\ tr[n - 1].op = "on_resolve_end"
          /\ tr[n].out.value # tr[n].arg
          /\ tr[n - 1].out.value # tr[n - 1].arg
          /\ frame[c].result.value # tr[n - 2].out.value

\* the located sequence of the field of frame c is empty by the schema
NoDirectives(c) ==
    \/ ~Registered(c)
    \/ /\ schema.fields[KeyOf(c)].directives = << >>
       /\ \/ ~schema.types[FieldType(KeyOf(c))].has_type_definition
          \/ schema.types[FieldType(KeyOf(c))].directives = << >>

\* C4: when the located sequence is empty (the pair is not registered, or
\* neither the field nor its return type carries a directive), resolve calls
\* _next exactly once with the same root and info and returns exactly what
\* _next produced, and raises nothing of its own.
C4_NoDirectivesPassThrough ==
    \A c \in Active :
      LET f  == frame[c]
          tr == f.trace
      IN  NoDirectives(c) =>
            /\ Len(tr) <= 1
            /\ \A k \in 1..Len(tr) :
                 /\ tr[k].op = "_next"
                 /\ tr[k].root = f.root
                 /\ tr[k].info = f.info
            /\ f.pc = "done" => (Len(tr) = 1 /\ f.result = tr[1].out)
            /\ f.pc = "end" => (Len(tr) = 1 /\ f.value = tr[1].out.value)

\* an unregistered field of a type that carries a directive resolved to a value
C4_Witness ==
    \E c \in Done :
      /\ ~Registered(c)
      /\ schema.types[frame[c].info.parent_type].directives # << >>
      /\ frame[c].result = Return(DateTime2020)
      /\ frame[c].root = "root2"

\* d is a directive whose start-hook always raises
AlwaysRaises(d) ==
    /\ has_on_resolve_start(d)
    /\ \A root \in Roots, info \in Infos :
         on_resolve_start(d, root, info).kind = "raise"

\* C5: a directive whose start-hook always raises gives the same outcome
\* attached to the field or only to the field's return type: in both
\* placements the underlying resolver is never called and the invocation
\* ends with the directive's error.
C5_PlacementEquivalent ==
    \A c \in Done : \A d \in Directives :
      ( /\ AlwaysRaises(d)
        /\ Registered(c)
        /\ \/ (FieldDirs(c) = <<d>> /\ TypeDirs(c) = << >>)
           \/ (FieldDirs(c) = << >> /\ TypeDirs(c) = <<d>>) )
      => /\ frame[c].result = Raise(d.arg)
         /\ frame[c].trace =
              <<Event("on_resolve_start", 1, d, frame[c].root, frame[c].info,
                      Absent, Raise(d.arg))>>

\* the directive is on the return type only and the field was blocked
C5_Witness ==
    \E c \in Done :
      /\ Registered(c)
      /\ FieldDirs(c) = << >>
      /\ TypeDirs(c) = <<IsAuthenticated>>
      /\ frame[c].result = Raise(unauthorized_message)

\* C6: for a field carrying a formatting end-hook, if the resolved value is
\* an instance of the checked type the value resolve returns is the hook's
\* formatted transformation of it, otherwise it is the resolved value
\* unchanged; for a plain value and for an awaitable of a value alike.
C6_FormattingHook ==
    \A c \in Done :
      LET f  == frame[c]
          tr == f.trace
      IN  ( /\ Registered(c)
            /\ Len(FieldDirs(c)) = 1
            /\ FieldDirs(c)[1].name = "Date"
            /\ TypeDirs(c) = << >>
            /\ Len(tr) >= 1
            /\ tr[1].op = "_next"
            /\ tr[1].out.kind = "return" )
          => /\ f.result.kind = "return"
             /\ Awaited(f.result.value) =
                  IF Awaited(tr[1].out.value).type = "datetime"
                  THEN Date_on_resolve_end(FieldDirs(c)[1],
                                           Awaited(tr[1].out.value))
                  ELSE Awaited(tr[1].out.value)

\* C7: errors after the start phase propagate unchanged: if _next raises, no
\* end-hook is invoked and resolve ends with that error; if an end-hook
\* raises, no later end-hook is invoked, resolve ends with that error and
\* returns no value; neither _next nor a hook is retried.
C7_LateErrorsPropagate ==
    \A c \in Active :
      LET f  == frame[c]
          tr == f.trace
      IN  /\ \A k \in 1..Len(tr) :
               (tr[k].op # "on_resolve_start" /\ tr[k].out.kind = "raise") =>
                 /\ k = Len(tr)
                 /\ f.pc = "done"
                 /\ f.result = Raise(tr[k].out.error)
                 /\ f.value = Absent
                 /\ tr[k].op = "_next" => EventsOf(c, "on_resolve_end") = {}
          /\ Cardinality(EventsOf(c, "_next")) <= 1
          /\ \A j, k \in 1..Len(tr) :
               (tr[j].op = tr[k].op /\ tr[j].pos = tr[k].pos) => j = k
          /\ (f.pc = "done" /\ f.result.kind = "return") =>
               \A k \in 1..Len(tr) : tr[k].out.kind = "return"

\* an end-hook raised on a value an earlier end-hook had already changed
C7_Witness ==
    \E c \in Done :
      LET tr == frame[c].trace
          n  == Len(tr)
      IN  /\ n >= 3
          /\ tr[n].op = "on_resolve_end" /\ tr[n].out.kind = "raise"
          /\ tr[n - 1].op = "on_resolve_end"
          /\ tr[n - 1].out.value # tr[n - 1].arg
          /\ frame[c].result = Raise(tr[n].out.error)

\* what _next did in frame c, Pending when it was not called
NextOutcome(c) ==
    IF EventsOf(c, "_next") = {} THEN Pending
    ELSE frame[c].trace[CHOOSE k \in EventsOf(c, "_next") : TRUE].out

\* frame c, finished, made the calls and ended the way its invocation does
\* when it runs alone
AsAlone(c) ==
    [trace |-> frame[c].trace, result |-> frame[c].result] =
      RunAlone(schema, frame[c].root, frame[c].info, NextOutcome(c))

\* C8: the interceptor keeps no state across invocations: when invocations
\* for sibling fields interleave, each one's hook sequence and outcome are
\* those of the invocation run alone; a start-hook error in one does not
\* alter another; no invocation modifies the schema's directive sequences.
C8_Stateless ==
    [][ /\ schema' = schema
        /\ \A c \in Calls :
             (frame[c].pc # "done" /\ frame'[c].pc = "done") => AsAlone(c)'
        /\ \A c, d \in Calls :
             (c # d /\ frame'[c] # frame[c]) => frame'[d] = frame[d] ]_vars

\* an invocation was ended by a start-hook error while a sibling,
\* resolving another field, is past its call of _next
C8_Witness ==
    \E c, d \in Calls :
      /\ c # d
      /\ frame[c].pc = "done"
      /\ frame[c].result = Raise(unauthorized_message)
      /\ frame[d].pc = "done"
      /\ frame[d].info # frame[c].info
      /\ frame[d].result = Return(Tony)

\* the rank of a call in the phase order start -> resolve -> end
Phase(op) ==
    IF op = "on_resolve_start" THEN 0 ELSE IF op = "_next" THEN 1 ELSE 2

\* C9: every invocation follows start -> resolve -> end: all start-hooks of
\* the located sequence have completed before _next is called; _next is
\* called at most once and exactly once when no start-hook raises; no
\* end-hook is invoked before _next has returned; end-hooks are visited in
\* the directive order of the start-hooks; each directive occurrence has its
\* start-hook and its end-hook invoked at most once.
C9_PhaseOrder ==
    \A c \in Active :
      LET f    == frame[c]
          tr   == f.trace
          dirs == FieldDirs(c) \o TypeDirs(c)
      IN  /\ \A j, k \in 1..Len(tr) :
               j < k =>
                 /\ Phase(tr[j].op) <= Phase(tr[k].op)
                 /\ tr[j].op = tr[k].op => tr[j].pos < tr[k].pos
                 /\ tr[j].out.kind = "return"
          /\ Cardinality(EventsOf(c, "_next")) <= 1
          /\ \A n \in EventsOf(c, "_next") :
               \A p \in 1..Len(dirs) :
                 has_on_resolve_start(dirs[p]) =>
                   \E k \in 1..(n - 1) :
                     /\ tr[k].op = "on_resolve_start"
                     /\ tr[k].pos = p
                     /\ tr[k].out.kind = "return"
          /\ ( /\ f.pc = "done"
               /\ \A k \in EventsOf(c, "on_resolve_start") :
                    tr[k].out.kind = "return" )
             => Cardinality(EventsOf(c, "_next")) = 1
          /\ f.pc = "start" <=> (EventsOf(c, "_next") = {} /\ f.result = Pending)
          /\ f.pc = "end" => Cardinality(EventsOf(c, "_next")) = 1

\* an invocation went through the three phases: a start-hook, _next and an
\* end-hook were called
C9_Witness ==
    \E c \in Done :
      /\ EventsOf(c, "on_resolve_start") # {}
      /\ EventsOf(c, "_next") # {}
      /\ EventsOf(c, "on_resolve_end") # {}
      /\ Len(frame[c].trace) >= 4

\* C10: the directive sequence of a field is built only from the field's own
\* directives and those of its return type; those of the declaring (parent)
\* type are not included.  A raising start-hook on a type T blocks every
\* field that returns T, but not T's own fields whose return types carry no
\* directive.
C10_ParentTypeNotConsulted ==
    \A c \in Done :
      LET f      == frame[c]
          parent == f.info.parent_type
          ret    == FieldType(KeyOf(c))
      IN  Registered(c) =>
            /\ Len(f.schema_directives) = Len(FieldDirs(c)) + Len(TypeDirs(c))
            /\ ( /\ \E p \in 1..Len(schema.types[parent].directives) :
                      AlwaysRaises(schema.types[parent].directives[p])
                 /\ FieldDirs(c) = << >>
                 /\ TypeDirs(c) = << >> )
               => /\ Cardinality(EventsOf(c, "_next")) = 1
                  /\ f.result = NextOutcome(c)
            /\ ( /\ ret \in ObjectTypes
                 /\ \E p \in 1..Len(schema.types[ret].directives) :
                      AlwaysRaises(schema.types[ret].directives[p]) )
               => /\ EventsOf(c, "_next") = {}
                  /\ f.result.kind = "raise"

\* a field of Query resolved to a value although Query carries a directive
\* whose start-hook raises
C10_Witness ==
    \E c \in Done :
      /\ frame[c].info = Info("Query", "user")
      /\ schema.types["Query"].directives = <<IsAuthenticated>>
      /\ frame[c].result = Return(Tony)

TypeOK ==
    /\ DOMAIN schema = {"fields", "types"}
    /\ \A c \in Calls : frame[c].pc \in {"idle", "start", "end", "done"}
====
